---- MODULE Spec2Model ----
(***************************************************************************)
(* Model of the open_notify crate: the pass queries of lib.rs and spot.rs  *)
(* (find_upcoming, find_current, DayTime::at_night) and the polling thread *)
(* of lib.rs (init, update, spot) with its mpsc channel.                   *)
(*                                                                         *)
(* Instants are integers (seconds on one time line; chrono compares        *)
(* DateTime<Local> values by the instant they denote).  The value that     *)
(* chrono::Local::now() yields during one query call is the variable now.  *)
(***************************************************************************)
EXTENDS Integers, Sequences, FiniteSets, TLC

\* ---- bounds of the model ----
MaxLen == 2
MaxTime == 2
MaxDur == 2

Instants == 0..MaxTime
Durations == 0..MaxDur

\* Option<T>
None == [some |-> FALSE]
Some(x) == [some |-> TRUE, val |-> x]

\* struct Spot { duration, risetime }
Spot == [duration : Durations, risetime : Instants]

\* struct DayTime { sunrise, sunset }
DayTime == [sunrise : Instants, sunset : Instants]

SeqsUpTo(S, n) == UNION {[1..k -> S] : k \in 0..n}

VARIABLES
    spots,      \* the Vec<Spot> handed to a query
    daytime,    \* the Option<DayTime> handed to a query
    now,        \* the value of chrono::Local::now() during the query
    op,         \* the query that has run ("none" before any)
    result      \* what the query returned

qvars == <<spots, daytime, now, op, result>>

VARIABLES
    caller,       \* the entry point in use: "update" (init + update) or "spot"
    checked,      \* the build checks arithmetic overflow (debug profile)
    poll_mins,    \* the poll_mins argument of init, a u64
    pc,           \* where the spawned thread is
    chan,         \* the values queued in the mpsc channel
    rx_alive,     \* the Receiver has not been dropped
    fetches,      \* number of reqwest::blocking::get calls made
    gets,         \* what each of these calls returned, in order (see get_kind)
    sleeps,       \* number of thread::sleep calls made
    published,    \* every value handed to tx.send, in order
    received,     \* every Some(..) value update has returned, in order
    last_update,  \* what the latest update call returned
    spot_ret      \* what spot has returned, once it has

pvars == <<caller, checked, poll_mins, pc, chan, rx_alive, fetches, gets, sleeps,
           published, received, last_update, spot_ret>>

vars == <<qvars, pvars>>

\* ---- spot.rs ----

\* DayTime::at_night(&self, datetime)
DayTime_at_night_inclusive(self, datetime) ==
    datetime <= self.sunrise \/ datetime >= self.sunset

DayTime_at_night(self, datetime) ==
    datetime < self.sunrise \/ datetime > self.sunset

\* Spot::at_night(&self, daytime)
Spot_at_night(self, dt) == DayTime_at_night(dt, self.risetime)

\* Spot::is_spottable(&self), identical in lib.rs and spot.rs; its two reads
\* of the clock are the one instant t
is_spottable_closed(self, t) ==
    t >= self.risetime /\ t <= self.risetime + self.duration

is_spottable(self, t) ==
    t >= self.risetime /\ t < self.risetime + self.duration

\* Spot::spottable(&self) of lib.rs: the time left until the rise
spottable(self, t) == self.risetime - t

\* find_upcoming of spot.rs: the loop from element i on.  The result is the
\* position of the returned element (Option<&Spot> refers to that element).
RECURSIVE spot_find_upcoming_ge(_, _, _, _)
spot_find_upcoming_ge(s, dt, t, i) ==
    IF i > Len(s) THEN None
    ELSE IF s[i].risetime >= t
         THEN IF dt.some /\ ~Spot_at_night(s[i], dt.val) THEN None ELSE Some(i)
         ELSE spot_find_upcoming_ge(s, dt, t, i + 1)

RECURSIVE spot_find_upcoming_from(_, _, _, _)
spot_find_upcoming_from(s, dt, t, i) ==
    IF i > Len(s) THEN None
    ELSE IF s[i].risetime > t
         THEN IF dt.some /\ ~Spot_at_night(s[i], dt.val) THEN None ELSE Some(i)
         ELSE spot_find_upcoming_from(s, dt, t, i + 1)

spot_find_upcoming(s, dt, t) == spot_find_upcoming_from(s, dt, t, 1)

\* find_current of spot.rs
RECURSIVE spot_find_current_skip(_, _, _, _)
spot_find_current_skip(s, dt, t, i) ==
    IF i > Len(s) THEN None
    ELSE IF is_spottable(s[i], t) /\ (~dt.some \/ Spot_at_night(s[i], dt.val))
         THEN Some(i)
         ELSE spot_find_current_skip(s, dt, t, i + 1)

RECURSIVE spot_find_current_from(_, _, _, _)
spot_find_current_from(s, dt, t, i) ==
    IF i > Len(s) THEN None
    ELSE IF is_spottable(s[i], t)
         THEN IF dt.some /\ ~Spot_at_night(s[i], dt.val) THEN None ELSE Some(i)
         ELSE spot_find_current_from(s, dt, t, i + 1)

spot_find_current(s, dt, t) == spot_find_current_from(s, dt, t, 1)

\* ---- lib.rs ----

\* find_upcoming of lib.rs (no DayTime parameter)
RECURSIVE lib_find_upcoming_from_ge(_, _, _)
lib_find_upcoming_from_ge(s, t, i) ==
    IF i > Len(s) THEN None
    ELSE IF spottable(s[i], t) >= 0
         THEN Some(i)
         ELSE lib_find_upcoming_from_ge(s, t, i + 1)

RECURSIVE lib_find_upcoming_from(_, _, _)
lib_find_upcoming_from(s, t, i) ==
    IF i > Len(s) THEN None
    ELSE IF spottable(s[i], t) > 0
         THEN Some(i)
         ELSE lib_find_upcoming_from(s, t, i + 1)

lib_find_upcoming(s, t) == lib_find_upcoming_from(s, t, 1)

\* find_current of lib.rs (no DayTime parameter)
RECURSIVE lib_find_current_from(_, _, _)
lib_find_current_from(s, t, i) ==
    IF i > Len(s) THEN None
    ELSE IF is_spottable(s[i], t)
         THEN Some(i)
         ELSE lib_find_current_from(s, t, i + 1)

lib_find_current(s, t) == lib_find_current_from(s, t, 1)


\* ---- 64-bit integers: four 16-bit limbs, least significant first ----

Base == 2^16

U64(n) == <<n, 0, 0, 0>>

U64Zero == U64(0)

\* 2^62, 2^63, 2^62 + 1 and 2^64 - 1
U64_2p62 == <<0, 0, 0, Base \div 4>>
U64_2p63 == <<0, 0, 0, Base \div 2>>
U64_2p62_plus_1 == <<1, 0, 0, Base \div 4>>
U64Max == <<Base - 1, Base - 1, Base - 1, Base - 1>>

\* x * k for a small k: the low 64 bits of the product, and whether bits were lost
U64_mul(x, k) ==
    LET p1 == x[1] * k
        p2 == x[2] * k + p1 \div Base
        p3 == x[3] * k + p2 \div Base
        p4 == x[4] * k + p3 \div Base
    IN  [val |-> <<p1 % Base, p2 % Base, p3 % Base, p4 % Base>>,
         overflow |-> p4 \div Base > 0]

\* 2^64 - x for x > 0
U64_neg(x) ==
    LET n1 == (Base - 1 - x[1]) + 1
        n2 == (Base - 1 - x[2]) + n1 \div Base
        n3 == (Base - 1 - x[3]) + n2 \div Base
        n4 == (Base - 1 - x[4]) + n3 \div Base
    IN  <<n1 % Base, n2 % Base, n3 % Base, n4 % Base>>

\* x > y on limbs
U64_gt(x, y) ==
    \E i \in 1..4 : x[i] > y[i] /\ \A j \in (i + 1)..4 : x[j] = y[j]

\* `r.duration as i64`: the two's complement reading of the same 64 bits,
\* as a sign and a magnitude
as_i64(x) ==
    IF x[4] >= Base \div 2
    THEN [neg |-> TRUE, mag |-> U64_neg(x)]
    ELSE [neg |-> FALSE, mag |-> x]

\* i64::MAX / 1000, the largest number of seconds of a chrono::Duration
DurationMaxSecs == <<21495, 42467, 50331, 32>>

\* chrono::Duration::seconds(s): panics (None) when out of bounds.  The
\* durations decoded in this model that are in bounds fit two limbs.
Duration_seconds(s) ==
    IF U64_gt(s.mag, DurationMaxSecs) THEN None
    ELSE Some((IF s.neg THEN -1 ELSE 1) * (s.mag[1] + Base * s.mag[2]))

\* from_utc_timestamp(t): the same instant, as a DateTime<Local>
from_utc_timestamp(t) == t

\* ---- the results travelling on the channel: Result<Vec<Spot>, String> ----

Ok(v) == [ok |-> TRUE, val |-> v]
Err(e) == [ok |-> FALSE, err |-> e]

LOADING == "loading..."

\* ---- what the service may answer to one get ----

\* struct Pass { duration: u64, risetime: i64 } of the wire format
WirePass(d, r) == [duration |-> d, risetime |-> r]

WireResponses ==
    { << >>,
      <<WirePass(U64(1), 1)>>,
      <<WirePass(U64Max, 1)>>,
      <<WirePass(U64_2p63, 1)>>,
      <<WirePass(U64(1), 0), WirePass(U64(2), 2)>> }

StatusTexts == {"200 OK", "500 Internal Server Error"}

\* the result of reqwest::blocking::get: a transport error, or a response with
\* a status and a body that may be unreadable, undecodable or a decoded document
Bodies == {Err("unreadable"), Ok(Err("expected value at line 1 column 1"))}
              \cup {Ok(Ok(w)) : w \in WireResponses}

GetResults ==
    {Err("transport")} \cup {Ok([status |-> st, text |-> b]) : st \in StatusTexts, b \in Bodies}

\* which arm of the matches of lines 112-139 a get result takes
get_kind(g) ==
    IF ~g.ok THEN "transport"
    ELSE IF g.val.status # "200 OK" THEN "status"
    ELSE IF ~g.val.text.ok THEN "unreadable"
    ELSE IF ~g.val.text.val.ok THEN "undecodable"
    ELSE "decoded"

\* lines 118-127: the Vec<Spot> built from w.response from element i on;
\* None when a conversion panics
RECURSIVE convert_from(_, _)
convert_from(w, i) ==
    IF i > Len(w) THEN Some(<< >>)
    ELSE LET d == Duration_seconds(as_i64(w[i].duration))
             rest == convert_from(w, i + 1)
         IN  IF ~d.some \/ ~rest.some THEN None
             ELSE Some(<<[duration |-> d.val,
                          risetime |-> from_utc_timestamp(w[i].risetime)]>> \o rest.val)

\* 60 * poll_mins == 0, the test `period == Duration::new(0, 0)`
period_is_zero_inverted(pm) == U64_mul(pm, 60).val # U64Zero

period_is_zero(pm) == U64_mul(pm, 60).val = U64Zero

\* One iteration of the loop of the spawned thread (lines 112-140) on the
\* result of the get: the values it sends and where the thread goes next.
iteration(pm, g) ==
    IF ~g.ok THEN [send |-> << >>, next |-> "fetch"]
    ELSE IF g.val.status # "200 OK"
         THEN [send |-> <<Err(g.val.status)>>, next |-> "fetch"]
    ELSE IF ~g.val.text.ok THEN [send |-> << >>, next |-> "panicked"]
    ELSE IF ~g.val.text.val.ok
         THEN [send |-> <<Err(g.val.text.val.err)>>, next |-> "fetch"]
    ELSE LET res == convert_from(g.val.text.val.val, 1)
         IN  IF ~res.some THEN [send |-> << >>, next |-> "panicked"]
             ELSE [send |-> <<Ok(res.val)>>,
                   next |-> IF period_is_zero(pm) THEN "done" ELSE "sleep"]

\* tx.send(v).unwrap_or(()): queued while the Receiver lives, dropped otherwise
send_overwrite(q, alive, vs) == IF alive /\ vs # << >> THEN vs ELSE q

send(q, alive, vs) == IF alive THEN q \o vs ELSE q

\* receiver.try_recv() (line 159): the oldest queued value, else the reason
\* there is none; values queued before the Sender was dropped stay receivable
try_recv_disconnect_first(q, connected) ==
    IF ~connected THEN Err("Disconnected")
    ELSE IF q # << >> THEN Ok(Head(q))
    ELSE Err("Empty")

try_recv(q, connected) ==
    IF q # << >> THEN Ok(Head(q))
    ELSE IF connected THEN Err("Empty")
    ELSE Err("Disconnected")

\* update(receiver), lines 158-163: Ok(spots) => Some(spots), Err(_e) => None
update_newest(q, connected) ==
    IF q = << >> THEN [ret |-> None, chan |-> q]
    ELSE [ret |-> Some(q[Len(q)]), chan |-> SubSeq(q, 1, Len(q) - 1)]

update(q, connected) ==
    LET r == try_recv(q, connected)
    IN  IF r.ok THEN [ret |-> Some(r.val), chan |-> Tail(q)]
        ELSE [ret |-> None, chan |-> q]

\* the match of spot on what update returned (lines 183-193): the value spot
\* returns, or None to go round the loop again
spot_match_unfiltered(r) ==
    IF ~r.some THEN None ELSE Some(r.val)

spot_match(r) ==
    IF ~r.some THEN None
    ELSE IF r.val.ok THEN Some(Ok(r.val.val))
    ELSE IF r.val.err # LOADING THEN Some(Err(r.val.err))
    ELSE None

\* ---- bounds of the polling model ----
MaxFetch == 3

PollMins == {U64Zero, U64(1), U64_2p62, U64_2p62_plus_1}

\* ---- the thread, the consumer and spot as actions ----

QIdle ==
    /\ spots = << >>
    /\ daytime = None
    /\ now = 0
    /\ op = "none"
    /\ result = None

PIdle ==
    /\ caller = "none"
    /\ checked = FALSE
    /\ poll_mins = U64Zero
    /\ pc = "none"
    /\ chan = << >>
    /\ rx_alive = FALSE
    /\ fetches = 0
    /\ gets = << >>
    /\ sleeps = 0
    /\ published = << >>
    /\ received = << >>
    /\ last_update = None
    /\ spot_ret = None

\* the Sender lives in the spawned thread and is dropped when the thread ends
tx_alive == pc \in {"spawned", "fetch", "sleep"}

\* init (lines 100-145) has returned the Receiver, or has panicked on the
\* overflow of 60 * poll_mins in a build that checks it; spot calls init with 0
Init ==
    /\ QIdle
    /\ caller \in {"update", "spot"}
    /\ checked \in BOOLEAN
    /\ poll_mins \in (IF caller = "spot" THEN {U64Zero} ELSE PollMins)
    /\ pc = IF checked /\ U64_mul(poll_mins, 60).overflow THEN "init_panicked" ELSE "spawned"
    /\ chan = << >>
    /\ rx_alive = (pc = "spawned")
    /\ fetches = 0
    /\ gets = << >>
    /\ sleeps = 0
    /\ published = << >>
    /\ received = << >>
    /\ last_update = None
    /\ spot_ret = None

\* line 110: the thread starts and sends the loading message
ThreadStart_silent ==
    /\ pc = "spawned"
    /\ pc' = "fetch"
    /\ UNCHANGED <<caller, checked, poll_mins, chan, rx_alive, fetches, gets, sleeps,
                   published, received, last_update, spot_ret>>
    /\ UNCHANGED qvars

ThreadStart ==
    /\ pc = "spawned"
    /\ pc' = "fetch"
    /\ chan' = send(chan, rx_alive, <<Err(LOADING)>>)
    /\ published' = published \o <<Err(LOADING)>>
    /\ UNCHANGED <<caller, checked, poll_mins, rx_alive, fetches, gets, sleeps,
                   received, last_update, spot_ret>>
    /\ UNCHANGED qvars

\* lines 111-141: one iteration of the loop
Fetch ==
    /\ pc = "fetch"
    /\ fetches < MaxFetch
    /\ \E g \in GetResults :
          LET it == iteration(poll_mins, g)
          IN  /\ chan' = send(chan, rx_alive, it.send)
              /\ published' = published \o it.send
              /\ pc' = it.next
              /\ sleeps' = IF it.next = "sleep" THEN sleeps + 1 ELSE sleeps
              /\ gets' = Append(gets, get_kind(g))
    /\ fetches' = fetches + 1
    /\ UNCHANGED <<caller, checked, poll_mins, rx_alive, received, last_update, spot_ret>>
    /\ UNCHANGED qvars

\* line 132: thread::sleep(period) returns
Wake ==
    /\ pc = "sleep"
    /\ pc' = "fetch"
    /\ UNCHANGED <<caller, checked, poll_mins, chan, rx_alive, fetches, gets, sleeps,
                   published, received, last_update, spot_ret>>
    /\ UNCHANGED qvars

\* the consumer calls update(&receiver)
Update ==
    /\ caller = "update"
    /\ rx_alive
    /\ LET u == update(chan, tx_alive)
       IN  /\ chan' = u.chan
           /\ last_update' = u.ret
           /\ received' = IF u.ret.some THEN Append(received, u.ret.val) ELSE received
    /\ UNCHANGED <<caller, checked, poll_mins, pc, rx_alive, fetches, gets, sleeps,
                   published, spot_ret>>
    /\ UNCHANGED qvars

\* the consumer drops the Receiver
DropReceiver ==
    /\ caller = "update"
    /\ rx_alive
    /\ rx_alive' = FALSE
    /\ chan' = << >>
    /\ UNCHANGED <<caller, checked, poll_mins, pc, fetches, gets, sleeps,
                   published, received, last_update, spot_ret>>
    /\ UNCHANGED qvars

\* spot (lines 180-195): one turn of its loop; returning drops the Receiver
SpotLoop ==
    /\ caller = "spot"
    /\ ~spot_ret.some
    /\ LET u == update(chan, tx_alive)
           m == spot_match(u.ret)
       IN  /\ last_update' = u.ret
           /\ received' = IF u.ret.some THEN Append(received, u.ret.val) ELSE received
           /\ spot_ret' = m
           /\ rx_alive' = ~m.some
           /\ chan' = IF m.some THEN << >> ELSE u.chan
    /\ UNCHANGED <<caller, checked, poll_mins, pc, fetches, gets, sleeps, published>>
    /\ UNCHANGED qvars

Next ==
    \/ ThreadStart
    \/ Fetch
    \/ Wake
    \/ Update
    \/ DropReceiver
    \/ SpotLoop

Spec == Init /\ [][Next]_vars

\* The spawned thread and the caller of spot are operating-system threads that
\* keep being scheduled: a step of either that stays possible is taken.
FairSpec ==
    /\ Spec
    /\ WF_vars(ThreadStart)
    /\ WF_vars(Fetch)
    /\ WF_vars(Wake)
    /\ WF_vars(SpotLoop)

\* ---- the query calls as actions ----

QInit ==
    /\ spots \in SeqsUpTo(Spot, MaxLen)
    /\ daytime \in {None} \cup {Some(w) : w \in DayTime}
    /\ now \in Instants
    /\ op = "none"
    /\ result = None
    /\ PIdle

CallSpotFindUpcoming ==
    /\ op = "none"
    /\ op' = "spot::find_upcoming"
    /\ result' = spot_find_upcoming(spots, daytime, now)
    /\ UNCHANGED <<spots, daytime, now>>
    /\ UNCHANGED pvars

CallSpotFindCurrent ==
    /\ op = "none"
    /\ op' = "spot::find_current"
    /\ result' = spot_find_current(spots, daytime, now)
    /\ UNCHANGED <<spots, daytime, now>>
    /\ UNCHANGED pvars

CallLibFindUpcoming ==
    /\ op = "none"
    /\ op' = "find_upcoming"
    /\ result' = lib_find_upcoming(spots, now)
    /\ UNCHANGED <<spots, daytime, now>>
    /\ UNCHANGED pvars

CallLibFindCurrent ==
    /\ op = "none"
    /\ op' = "find_current"
    /\ result' = lib_find_current(spots, now)
    /\ UNCHANGED <<spots, daytime, now>>
    /\ UNCHANGED pvars

\* find_upcoming then find_current on the same collection, as test_spot does
\* (tests.rs lines 9-15), both seeing the instant now
CallLibUpcomingAndCurrent ==
    /\ op = "none"
    /\ op' = "find_upcoming, find_current"
    /\ result' = Some([upcoming |-> lib_find_upcoming(spots, now),
                       current |-> lib_find_current(spots, now)])
    /\ UNCHANGED <<spots, daytime, now>>
    /\ UNCHANGED pvars

CallAtNight ==
    /\ op = "none"
    /\ daytime.some
    /\ op' = "DayTime::at_night"
    /\ result' = Some(DayTime_at_night(daytime.val, now))
    /\ UNCHANGED <<spots, daytime, now>>
    /\ UNCHANGED pvars

QNext ==
    \/ CallSpotFindUpcoming
    \/ CallSpotFindCurrent
    \/ CallLibFindUpcoming
    \/ CallLibFindCurrent
    \/ CallLibUpcomingAndCurrent
    \/ CallAtNight

QuerySpec == QInit /\ [][QNext]_vars

\* ---- what the queries are claimed to return ----

Chronological == \A i, j \in 1..Len(spots) : i < j => spots[i].risetime <= spots[j].risetime

RisesAfterNow(i) == spots[i].risetime > now

ContainsNow(i) ==
    spots[i].risetime <= now /\ now < spots[i].risetime + spots[i].duration

RisesInDarkness(i) ==
    spots[i].risetime < daytime.val.sunrise \/ spots[i].risetime > daytime.val.sunset

\* the first position of a set of positions, or nothing
FirstOf(S) == IF S = {} THEN None ELSE Some(CHOOSE i \in S : \A j \in S : i <= j)

\* C1: with a DayTime supplied and a chronologically ordered collection,
\* find_upcoming returns the first pass that rises after now and rises in
\* darkness, skipping the daytime rises; nothing only when there is none.
\* (spot.rs returns None at the first daytime rise after now instead.)
C1_UpcomingSkipsDaytime ==
    (op = "spot::find_upcoming" /\ daytime.some /\ Chronological)
        => result = FirstOf({i \in 1..Len(spots) : RisesAfterNow(i) /\ RisesInDarkness(i)})

\* C2: without a DayTime, find_upcoming (lib.rs, and spot.rs called with None)
\* returns the first pass in collection order with risetime > now, and nothing
\* exactly when the collection is empty or every risetime is <= now.
C2_UpcomingNoWindow ==
    (op = "find_upcoming" \/ (op = "spot::find_upcoming" /\ ~daytime.some))
        => /\ result = FirstOf({i \in 1..Len(spots) : RisesAfterNow(i)})
           /\ (result = None) <=>
                  (Len(spots) = 0 \/ \A i \in 1..Len(spots) : spots[i].risetime <= now)

C2_Witness ==
    /\ op = "spot::find_upcoming"
    /\ ~daytime.some
    /\ Len(spots) = 2
    /\ spots[1].risetime = now
    /\ result = Some(2)

\* C3: with a DayTime supplied, find_current looks only at the first pass
\* whose interval [risetime, risetime + duration) contains now: it is returned
\* if it rises in darkness, otherwise the result is nothing even when a later
\* pass contains now and rises in darkness.
C3_CurrentStopsAtFirst ==
    (op = "spot::find_current" /\ daytime.some)
        => LET S == {i \in 1..Len(spots) : ContainsNow(i)}
               f == FirstOf(S)
           IN  IF S = {} THEN result = None
               ELSE IF RisesInDarkness(f.val) THEN result = f
               ELSE result = None

C3_Witness ==
    /\ op = "spot::find_current"
    /\ daytime.some
    /\ Len(spots) = 2
    /\ ContainsNow(1) /\ ~RisesInDarkness(1)
    /\ ContainsNow(2) /\ RisesInDarkness(2)
    /\ Chronological
    /\ result = None

\* C4: without a DayTime, find_current (lib.rs, and spot.rs called with None)
\* returns the first pass with risetime <= now < risetime + duration, nothing
\* when there is none; a pass of duration 0 is never returned.
C4_CurrentNoWindow ==
    (op = "find_current" \/ (op = "spot::find_current" /\ ~daytime.some))
        => /\ result = FirstOf({i \in 1..Len(spots) : ContainsNow(i)})
           /\ result.some => spots[result.val].duration > 0

C4_Witness ==
    /\ op = "find_current"
    /\ Len(spots) = 2
    /\ spots[1].risetime = now /\ spots[1].duration = 0
    /\ spots[2].risetime + spots[2].duration = now + 1
    /\ result = Some(2)

\* C5: at_night is true exactly for instants before sunrise or after sunset;
\* for a DayTime with sunrise <= sunset the instants equal to sunrise and to
\* sunset are daytime.
C5_AtNight ==
    op = "DayTime::at_night"
        => LET w == daytime.val
           IN  /\ result.val <=> (now < w.sunrise \/ now > w.sunset)
               /\ (w.sunrise <= w.sunset /\ now \in {w.sunrise, w.sunset})
                      => result.val = FALSE

C5_Witness ==
    /\ op = "DayTime::at_night"
    /\ daytime.val.sunrise < daytime.val.sunset
    /\ now = daytime.val.sunset
    /\ result = Some(FALSE)

\* ---- the polling thread and its channel ----

\* the position of the first published value that is not the loading message
FirstNonLoading == FirstOf({i \in 1..Len(published) : published[i] # Err(LOADING)})

\* C6: the loading message is published exactly once, as the first value and
\* before the first get; so the first value any update returns is the loading
\* message.
C6_LoadingFirst ==
    /\ (fetches > 0 \/ pc \in {"fetch", "sleep", "done", "panicked"}) => published # << >>
    /\ published # << >> => published[1] = Err(LOADING)
    /\ \A i \in 2..Len(published) : published[i] # Err(LOADING)
    /\ received # << >> => received[1] = Err(LOADING)

C6_Witness ==
    /\ Len(received) >= 2
    /\ received[1] = Err(LOADING)
    /\ ~received[2].ok
    /\ fetches >= 1

\* C7: with poll_mins = 0 the thread ends right after its first successful
\* publish: at most one success is ever published, it is the last value
\* published, the thread is done, and no get and no publish follows.
C7_OneShotEndsAfterSuccess ==
    /\ [](poll_mins = U64Zero =>
            /\ Cardinality({i \in 1..Len(published) : published[i].ok}) <= 1
            /\ (\E i \in 1..Len(published) : published[i].ok)
                  => (pc = "done" /\ published[Len(published)].ok))
    /\ [][(poll_mins = U64Zero /\ \E i \in 1..Len(published) : published[i].ok)
            => UNCHANGED <<pc, fetches, published>>]_vars

C7_Witness ==
    /\ poll_mins = U64Zero
    /\ pc = "done"
    /\ Len(published) = 3
    /\ ~published[2].ok
    /\ published[3].ok

\* C8: the values update has returned are, in order, a prefix of the values
\* the thread has published: none lost, overwritten, duplicated or reordered.
C8_ReceivedIsPrefixOfPublished ==
    /\ Len(received) <= Len(published)
    /\ \A i \in 1..Len(received) : received[i] = published[i]

C8_Witness ==
    /\ caller = "update"
    /\ Len(published) >= 3
    /\ received = published
    /\ published[Len(published)].ok
    /\ last_update = None

\* C9: update never blocks and takes at most one value: on an empty channel
\* it returns None and leaves the channel as it was; on a channel holding
\* n >= 1 values it returns the oldest and leaves the other n - 1 in order.
C9_UpdateTakesOldestOnly ==
    /\ []((caller = "update" /\ rx_alive) => ENABLED Update)
    /\ [][Update =>
            IF chan = << >>
            THEN last_update' = None /\ chan' = chan /\ received' = received
            ELSE /\ last_update' = Some(Head(chan))
                 /\ chan' = Tail(chan)
                 /\ Len(chan') = Len(chan) - 1]_vars

C9_Witness ==
    /\ caller = "update"
    /\ last_update.some
    /\ Len(chan) >= 2
    /\ chan[1] # chan[2]

\* C10: spot calls init with poll_mins = 0 and returns the first published
\* value that is not the loading message, a success as Ok and a failure as
\* Err with its message; it never returns the loading message.
C10_SpotReturnsFirstNonLoading ==
    /\ caller = "spot" => poll_mins = U64Zero
    /\ spot_ret.some =>
          /\ caller = "spot"
          /\ FirstNonLoading.some
          /\ spot_ret.val = published[FirstNonLoading.val]
          /\ spot_ret.val # Err(LOADING)

C10_Witness ==
    /\ spot_ret.some
    /\ ~spot_ret.val.ok
    /\ \E i \in 1..Len(published) : published[i].ok

\* the latest get and the value it made the thread publish, seen on a step
\* that makes a get
MadeGet == fetches' = fetches + 1
LatestGet == gets'[Len(gets')]
PublishedOne == Len(published') = Len(published) + 1
LatestPublished == published'[Len(published')]

\* the gets that returned an HTTP response, and those among them whose
\* iteration ran to its end
HttpGets == {i \in 1..Len(gets) : gets[i] # "transport"}
CompletedHttpGets == {i \in HttpGets : ~(i = Len(gets) /\ pc = "panicked")}

\* C11: every failed iteration (transport failure, bad status, unreadable
\* body, undecodable body) publishes a failure the consumer can receive, and
\* none ends the thread or passes in silence.
C11_FailuresReachTheChannel ==
    [][(MadeGet /\ LatestGet \in {"transport", "status", "unreadable", "undecodable"})
          => (PublishedOne /\ ~LatestPublished.ok /\ pc' # "panicked")]_vars

\* C12: an iteration makes one get; when the get returns an HTTP response it
\* publishes exactly one value (a success for a decoded body, a failure for
\* a bad status or an undecodable body); on a transport failure it publishes
\* nothing and goes on; so the values published after the loading message
\* are as many as the completed iterations whose get returned a response.
C12_OnePublishPerResponse ==
    /\ [](fetches = Len(gets))
    /\ [](published # << >> => Len(published) - 1 = Cardinality(CompletedHttpGets))
    /\ [][MadeGet =>
            /\ LatestGet # "transport" => PublishedOne
            /\ LatestGet = "decoded" => (PublishedOne /\ LatestPublished.ok)
            /\ LatestGet \in {"status", "undecodable"} => (PublishedOne /\ ~LatestPublished.ok)
            /\ LatestGet = "transport" => (published' = published /\ pc' = "fetch")]_vars

\* C13: a thread started with poll_mins > 0 never ends on its own: it is
\* never done and never dead, and it can make its next get whether or not the
\* consumer still receives or still holds the Receiver.
C13_PeriodicNeverEnds ==
    /\ []((poll_mins # U64Zero /\ pc # "init_panicked") => pc \notin {"done", "panicked"})
    /\ []((poll_mins # U64Zero /\ pc = "fetch" /\ fetches < MaxFetch) => ENABLED Fetch)

\* the sleeps are where C14 puts them: only right after a successful publish,
\* only with poll_mins > 0, one per success of a thread that goes on
SleepsFollowSuccessOnly ==
    /\ [](pc = "sleep" => (poll_mins # U64Zero /\ published[Len(published)].ok))
    /\ [][sleeps' # sleeps =>
            (sleeps' = sleeps + 1 /\ PublishedOne /\ LatestPublished.ok /\ pc' = "sleep")]_vars
    /\ [][(MadeGet /\ ~(PublishedOne /\ LatestPublished.ok)) =>
            (sleeps' = sleeps /\ pc' # "sleep")]_vars
    /\ [][(MadeGet /\ PublishedOne /\ LatestPublished.ok /\ pc' # "done") =>
            (pc' = "sleep" /\ sleeps' = sleeps + 1)]_vars

\* C14: the thread sleeps only right after publishing a success and only
\* with poll_mins > 0; after a failure or a transport failure the next get
\* follows without a sleep; between two successes in a row there is exactly
\* one sleep, and it lasts poll_mins minutes (the period slept is
\* 60 * poll_mins seconds computed in 64 bits, which is poll_mins minutes
\* only when the product did not overflow).
C14_SleepOnlyAfterSuccess ==
    /\ SleepsFollowSuccessOnly
    /\ [](pc = "sleep" => ~U64_mul(poll_mins, 60).overflow)

\* C15: spot returns in the end once a get has returned an HTTP response
\* (the threads being scheduled fairly); while every get has failed at
\* transport level nothing but the loading message is published and spot
\* has not returned.
C15_SpotReturns ==
    /\ ((caller = "spot" /\ HttpGets # {}) ~> spot_ret.some)
    /\ []((caller = "spot" /\ HttpGets = {}) =>
            (spot_ret = None /\ \A i \in 1..Len(published) : published[i] = Err(LOADING)))

\* C16: every pass the thread publishes has duration >= 0, whatever the u64
\* duration on the wire was.
C16_DurationsNonNegative ==
    \A i \in 1..Len(published) :
        published[i].ok =>
            \A j \in 1..Len(published[i].val) : published[i].val[j].duration >= 0

C18_OneShotEndsOnlyBySuccess ==
    /\ []((poll_mins = U64Zero /\ pc \in {"done", "panicked"})
            => (pc = "done" /\ published[Len(published)].ok))
    /\ [][(poll_mins = U64Zero /\ MadeGet /\ PublishedOne /\ ~LatestPublished.ok)
            => pc' = "fetch"]_vars
    /\ []((spot_ret.some /\ ~spot_ret.val.ok)
            => (pc = "fetch" \/ (pc = "done" /\ published[Len(published)].ok)))

\* the published values that update has not returned yet
Pending == SubSeq(published, Len(received) + 1, Len(published))

\* C19: after the thread has ended, the values it published and that were not
\* received yet are still returned by update, oldest first; once they are
\* used up update returns None, as it does for a live thread with nothing new.
C19_QueueOutlivesThread ==
    /\ []((caller = "update" /\ rx_alive /\ ~tx_alive) => chan = Pending)
    /\ [][(Update /\ ~tx_alive) =>
            IF Pending = << >>
            THEN last_update' = None /\ received' = received
            ELSE last_update' = Some(Head(Pending)) /\ chan' = Tail(Pending)]_vars
    /\ [][(Update /\ chan = << >>) => last_update' = None]_vars

C19_Witness ==
    /\ caller = "update"
    /\ poll_mins = U64Zero
    /\ pc = "done"
    /\ Len(published) >= 3
    /\ received = published
    /\ last_update = None

====
